---- MODULE Spec2Model ----
(***************************************************************************)
(* Finnish consonant gradation (astevaihtelu.py, utils.py, constants.py)   *)
(* and vowel harmony (vokaaliharmonia.py, vowel_harmony.py).               *)
(*                                                                         *)
(* A Python str is a sequence of one-character strings.  A call's outcome  *)
(* is a record: exc = "none" and val = the returned value, or exc = the    *)
(* class of the exception that leaves the call and msg = which of its      *)
(* messages it carries.                                                    *)
(***************************************************************************)
EXTENDS Integers, Sequences, FiniteSets, TLC

VARIABLES word, op, result

vars == <<word, op, result>>

(* ------------------------------ bounds --------------------------------- *)

\* longest word fed to the gradation functions
MaxLen == 5

\* longest word fed to the harmony functions
MaxHarmonyLen == 4

\* characters of the gradation inputs: a Wordtype-A vowel, the vowel "e",
\* consonants of one- and two-character rules, and an uppercase consonant
GradationAlphabet == {"a", "e", "k", "t", "n", "K"}

\* characters of the harmony inputs: one vowel of each camp, both neutral
\* vowels, a consonant, and an uppercase vowel
HarmonyAlphabet == {"a", "ä", "i", "e", "s", "A"}

WordsOver(alphabet, n) == UNION {[1..k -> alphabet] : k \in 1..n}

(* --------------------------- Python strings ---------------------------- *)

\* "c in s" for a one-character c
InStr(c, s) == \E i \in DOMAIN s : s[i] = c

\* s[i:] for a 0-based i with 0 <= i <= len(s)
SliceFrom(s, i) == SubSeq(s, i + 1, Len(s))

\* s[:i] for a 0-based i with 0 <= i <= len(s)
SliceTo(s, i) == SubSeq(s, 1, i)

\* s[-2:]
LastTwo(s) == IF Len(s) <= 2 THEN s ELSE SubSeq(s, Len(s) - 1, Len(s))

\* str.lower() and str.upper() of one character: the letters of the Finnish
\* vowel inventory and of the rule table's keys
CasePairs ==
    { <<"a", "A">>, <<"ä", "Ä">>, <<"e", "E">>, <<"i", "I">>, <<"o", "O">>,
      <<"ö", "Ö">>, <<"u", "U">>, <<"y", "Y">>, <<"k", "K">>, <<"p", "P">>,
      <<"t", "T">>, <<"n", "N">>, <<"m", "M">>, <<"l", "L">>, <<"r", "R">>,
      <<"s", "S">> }

LowerChar(c) ==
    IF \E p \in CasePairs : p[2] = c
    THEN (CHOOSE p \in CasePairs : p[2] = c)[1]
    ELSE c

UpperChar(c) ==
    IF \E p \in CasePairs : p[1] = c
    THEN (CHOOSE p \in CasePairs : p[1] = c)[2]
    ELSE c

Upper(s) == [i \in DOMAIN s |-> UpperChar(s[i])]

Lower(s) == [i \in DOMAIN s |-> LowerChar(s[i])]

(* ------------------------------ outcomes ------------------------------- *)

Return(v) == [exc |-> "none", msg |-> "", val |-> v]

Raise(e, m) == [exc |-> e, msg |-> m, val |-> <<>>]

NoResult == [exc |-> "pending", msg |-> "", val |-> <<>>]

(* ----------------------------- constants.py ---------------------------- *)

FINNISH_VOWELS == <<"a", "ä", "e", "i", "o", "ö", "u", "y">>

WORDTYPE_A_VOWELS == <<"a", "ä", "i", "o", "ö", "u", "y">>

STRONG_TO_WEAK_GRAD ==
    (<<"k", "k">> :> <<"k">>) @@
    (<<"p", "p">> :> <<"p">>) @@
    (<<"t", "t">> :> <<"t">>) @@
    (<<"n", "k">> :> <<"n", "g">>) @@
    (<<"n", "t">> :> <<"n", "n">>) @@
    (<<"m", "p">> :> <<"m", "m">>) @@
    (<<"l", "t">> :> <<"l", "l">>) @@
    (<<"r", "t">> :> <<"r", "r">>) @@
    (<<"k">> :> <<>>) @@
    (<<"p">> :> <<"v">>) @@
    (<<"t">> :> <<"d">>)

(* ------------------------------- utils.py ------------------------------ *)

\* enumerate(word): the pairs <<0-based index, character>> in order
Enumerate(w) == [i \in 1..Len(w) |-> <<i - 1, w[i]>>]

IsConsonantPair(p) == ~InStr(p[2], FINNISH_VOWELS)

IsVowelPair(p) == InStr(p[2], FINNISH_VOWELS)

get_consonants_and_indices(w) == SelectSeq(Enumerate(w), IsConsonantPair)

get_vowels_and_indices(w) == SelectSeq(Enumerate(w), IsVowelPair)

\* get_final_syllable with the syllable count tested before the word type
get_final_syllable_count_first(w) ==
    LET vowel_map == get_vowels_and_indices(w)
    IN  IF Len(vowel_map) < 2
        THEN Raise("ValueError", "InsufficientSyllables")
        ELSE IF ~InStr(w[Len(w)], WORDTYPE_A_VOWELS)
             THEN Raise("ValueError", "InvalidWordType")
             ELSE Return(SliceFrom(w, vowel_map[Len(vowel_map) - 1][1] + 1))

get_final_syllable(w) ==
    IF ~InStr(w[Len(w)], WORDTYPE_A_VOWELS)
    THEN Raise("ValueError", "InvalidWordType")
    ELSE LET vowel_map == get_vowels_and_indices(w)
         IN  IF Len(vowel_map) >= 2
             THEN Return(SliceFrom(w, vowel_map[Len(vowel_map) - 1][1] + 1))
             ELSE IF Len(vowel_map) = 0
                  THEN Raise("IndexError", "")
                  ELSE IF vowel_map[Len(vowel_map)][2] # w[Len(w)]
                       THEN Raise("ValueError", "InvalidWordType")
                       ELSE Raise("ValueError", "InsufficientSyllables")

\* get_preceding_syllables with the slice ending before the vowel
get_preceding_syllables_exclusive(w) ==
    LET vowel_map == get_vowels_and_indices(w)
    IN  IF Len(vowel_map) >= 2
        THEN Return(SliceTo(w, vowel_map[Len(vowel_map) - 1][1]))
        ELSE Raise("IndexError", "")

get_preceding_syllables(w) ==
    LET vowel_map == get_vowels_and_indices(w)
    IN  IF Len(vowel_map) >= 2
        THEN Return(SliceTo(w, vowel_map[Len(vowel_map) - 1][1] + 1))
        ELSE Raise("IndexError", "")

(* ---------------------------- astevaihtelu.py -------------------------- *)

\* whether pattern (literal letters) matches s at 1-based position i under
\* re.IGNORECASE
MatchesAt(pattern, s, i) ==
    /\ i + Len(pattern) - 1 <= Len(s)
    /\ \A j \in 1..Len(pattern) : LowerChar(s[i + j - 1]) = LowerChar(pattern[j])

\* re.sub(pattern, repl, s, flags=re.IGNORECASE) from position i on: every
\* non-overlapping occurrence, leftmost first, is replaced
RECURSIVE ReSubFrom(_, _, _, _)
ReSubFrom(pattern, repl, s, i) ==
    IF i > Len(s) THEN <<>>
    ELSE IF MatchesAt(pattern, s, i)
         THEN repl \o ReSubFrom(pattern, repl, s, i + Len(pattern))
         ELSE <<s[i]>> \o ReSubFrom(pattern, repl, s, i + 1)

re_sub(pattern, repl, s) == ReSubFrom(pattern, repl, s, 1)

\* the characters of the final syllable that are not vowels, in order
final_syllable_consonants(final_syllable) ==
    LET cs == get_consonants_and_indices(final_syllable)
    IN  [k \in 1..Len(cs) |-> cs[k][2]]

\* lines 62-64: the table lookup, the substitution and the returned tuple
Transform(target_consonants, final_syllable) ==
    IF target_consonants \notin DOMAIN STRONG_TO_WEAK_GRAD
    THEN Return(<<>>)
    ELSE LET weak_form == STRONG_TO_WEAK_GRAD[target_consonants]
         IN  Return(<<target_consonants, weak_form,
                      re_sub(target_consonants, weak_form, final_syllable)>>)

\* get_transformation with the single last consonant tested before the pair
get_transformation_single_first(w) ==
    LET fs == get_final_syllable(w)
    IN  IF fs.exc # "none" THEN fs
        ELSE LET cons == final_syllable_consonants(fs.val)
             IN  IF Len(cons) = 0
                 THEN Raise("IndexError", "")
                 ELSE IF <<cons[Len(cons)]>> \in DOMAIN STRONG_TO_WEAK_GRAD
                      THEN Transform(<<cons[Len(cons)]>>, fs.val)
                      ELSE IF LastTwo(cons) \in DOMAIN STRONG_TO_WEAK_GRAD
                           THEN Transform(LastTwo(cons), fs.val)
                           ELSE Raise("UnboundLocalError", "")

get_transformation(w) ==
    LET fs == get_final_syllable(w)
    IN  IF fs.exc # "none" THEN fs
        ELSE LET cons == final_syllable_consonants(fs.val)
             IN  IF LastTwo(cons) \in DOMAIN STRONG_TO_WEAK_GRAD
                 THEN Transform(LastTwo(cons), fs.val)
                 ELSE IF Len(cons) = 0
                      THEN Raise("IndexError", "")
                      ELSE IF <<cons[Len(cons)]>> \in DOMAIN STRONG_TO_WEAK_GRAD
                           THEN Transform(<<cons[Len(cons)]>>, fs.val)
                           ELSE Raise("UnboundLocalError", "")

produce_nom_plural_example(w) ==
    LET preceding_syllables == get_preceding_syllables(w)
    IN  IF preceding_syllables.exc # "none" THEN preceding_syllables
        ELSE LET t == get_transformation(w)
             IN  IF t.exc # "none" \/ Len(t.val) < 3
                 THEN Return(w \o <<"t">>)
                 ELSE Return(preceding_syllables.val \o t.val[3] \o <<"t">>)

(* ------------------------- gradation state machine --------------------- *)

GradationWords == WordsOver(GradationAlphabet, MaxLen)

InitGradation ==
    /\ word \in GradationWords
    /\ op = "input"
    /\ result = NoResult

CallGetFinalSyllable ==
    /\ op = "input"
    /\ op' = "get_final_syllable"
    /\ result' = get_final_syllable(word)
    /\ UNCHANGED word

CallGetPrecedingSyllables ==
    /\ op = "input"
    /\ op' = "get_preceding_syllables"
    /\ result' = get_preceding_syllables(word)
    /\ UNCHANGED word

CallGetTransformation ==
    /\ op = "input"
    /\ op' = "get_transformation"
    /\ result' = get_transformation(word)
    /\ UNCHANGED word

CallProduceNomPluralExample ==
    /\ op = "input"
    /\ op' = "produce_nom_plural_example"
    /\ result' = produce_nom_plural_example(word)
    /\ UNCHANGED word

NextGradation ==
    \/ CallGetFinalSyllable
    \/ CallGetPrecedingSyllables
    \/ CallGetTransformation
    \/ CallProduceNomPluralExample

SpecGradation == InitGradation /\ [][NextGradation]_vars

(* ------------------------- harmony return values ----------------------- *)

\* a str literal of the source
PyStr(lit) == [lit |-> lit, arg |-> <<>>]

\* f'inconclusive: "{word}" does not contain vowels'
InconclusiveStr(w) == [lit |-> "inconclusive", arg |-> w]

PyNone == [lit |-> "None", arg |-> <<>>]

\* all(vowel in letters for vowel in vowels)
AllIn(vowels, letters) == \A i \in DOMAIN vowels : InStr(vowels[i], letters)

\* vowel_group in [...]
InList(v, list) == \E i \in DOMAIN list : list[i] = v

(* --------------------------- vokaaliharmonia.py ------------------------ *)

vokaaliharmonia_return_vowel_group(w) ==
    LET vm == get_vowels_and_indices(w)
        vowels == [k \in 1..Len(vm) |-> vm[k][2]]
    IN  IF Len(vowels) = 0 THEN InconclusiveStr(w)
        ELSE IF AllIn(vowels, <<"i", "e">>) THEN PyStr("neutral")
        ELSE IF AllIn(vowels, <<"a", "o", "u">>) THEN PyStr("front")
        ELSE IF AllIn(vowels, <<"a", "o", "u", "i", "e">>) THEN PyStr("front + neutral")
        ELSE IF AllIn(vowels, <<"ä", "ö", "y">>) THEN PyStr("back")
        ELSE IF AllIn(vowels, <<"ä", "ö", "y", "i", "e">>) THEN PyStr("back + neutral")
        ELSE PyNone

vokaaliharmonia_give_example_endings(w) ==
    LET vowel_group == vokaaliharmonia_return_vowel_group(w)
    IN  IF InList(vowel_group, <<PyStr("neutral"), PyStr("back"), PyStr("back + neutral")>>)
        THEN PyStr("-ssä, -vät, -kö")
        ELSE IF InList(vowel_group, <<PyStr("front"), PyStr("front + neutral")>>)
             THEN PyStr("-ssa, -vat, -ko")
             ELSE PyStr("unknown")

(* ---------------------------- vowel_harmony.py ------------------------- *)

IsVowelChar(c) == InStr(c, <<"a", "ä", "e", "i", "o", "ö", "u", "y">>)

get_vowels(w) == Lower(SelectSeq(w, IsVowelChar))

vowel_harmony_return_vowel_group(w) ==
    LET vowels == get_vowels(w)
    IN  IF Len(vowels) = 0 THEN InconclusiveStr(w)
        ELSE IF AllIn(vowels, <<"a", "o", "u">>) THEN PyStr("front")
        ELSE IF AllIn(vowels, <<"a", "o", "u", "i", "e">>) THEN PyStr("front + neutral")
        ELSE IF AllIn(vowels, <<"ä", "ö", "y">>) THEN PyStr("back")
        ELSE IF AllIn(vowels, <<"ä", "ö", "y", "i", "e">>) THEN PyStr("back + neutral")
        ELSE PyStr("neutral")

vowel_harmony_give_example_endings(w) ==
    LET vowel_group == vowel_harmony_return_vowel_group(w)
    IN  IF InList(vowel_group, <<PyStr("neutral"), PyStr("back"), PyStr("back + neutral")>>)
        THEN PyStr("-ssä, -vät, -kö")
        ELSE IF InList(vowel_group, <<PyStr("front"), PyStr("front + neutral")>>)
             THEN PyStr("-ssa, -vat, -ko")
             ELSE PyStr("unknown")

(* -------------------------- harmony state machine ---------------------- *)

HarmonyWords == WordsOver(HarmonyAlphabet, MaxHarmonyLen)

InitHarmony ==
    /\ word \in HarmonyWords
    /\ op = "input"
    /\ result = NoResult

CallVokaaliharmoniaReturnVowelGroup ==
    /\ op = "input"
    /\ op' = "vokaaliharmonia.return_vowel_group"
    /\ result' = Return(vokaaliharmonia_return_vowel_group(word))
    /\ UNCHANGED word

CallVokaaliharmoniaGiveExampleEndings ==
    /\ op = "input"
    /\ op' = "vokaaliharmonia.give_example_endings"
    /\ result' = Return(vokaaliharmonia_give_example_endings(word))
    /\ UNCHANGED word

CallVowelHarmonyReturnVowelGroup ==
    /\ op = "input"
    /\ op' = "vowel_harmony.return_vowel_group"
    /\ result' = Return(vowel_harmony_return_vowel_group(word))
    /\ UNCHANGED word

CallVowelHarmonyGiveExampleEndings ==
    /\ op = "input"
    /\ op' = "vowel_harmony.give_example_endings"
    /\ result' = Return(vowel_harmony_give_example_endings(word))
    /\ UNCHANGED word

NextHarmony ==
    \/ CallVokaaliharmoniaReturnVowelGroup
    \/ CallVokaaliharmoniaGiveExampleEndings
    \/ CallVowelHarmonyReturnVowelGroup
    \/ CallVowelHarmonyGiveExampleEndings

SpecHarmony == InitHarmony /\ [][NextHarmony]_vars

(* ------------------------ vocabulary of the claims --------------------- *)

\* the vowels of w, in order
VowelsOf(w) == SelectSeq(w, IsVowelChar)

\* 1-based position of the second-to-last vowel of a word with two vowels
PenultimateVowelPos(w) ==
    CHOOSE i \in 1..Len(w) :
        /\ IsVowelChar(w[i])
        /\ Cardinality({j \in (i + 1)..Len(w) : IsVowelChar(w[j])}) = 1

\* the last character is a Wordtype-A vowel and there are two vowels
FinalSyllableComputed(w) ==
    /\ InStr(w[Len(w)], WORDTYPE_A_VOWELS)
    /\ Len(VowelsOf(w)) >= 2

\* the consonants of the final syllable of a word with FinalSyllableComputed
ConsonantsOfFinalSyllable(w) ==
    LET fs == SubSeq(w, PenultimateVowelPos(w) + 1, Len(w))
    IN  SelectSeq(fs, LAMBDA c : ~IsVowelChar(c))

\* the last two consonants form a two-character key of the table
PairIsKey(cons) ==
    /\ Len(cons) >= 2
    /\ SubSeq(cons, Len(cons) - 1, Len(cons)) \in DOMAIN STRONG_TO_WEAK_GRAD

\* the last consonant alone is a key of the table
LastIsKey(cons) ==
    /\ Len(cons) >= 1
    /\ <<cons[Len(cons)]>> \in DOMAIN STRONG_TO_WEAK_GRAD

\* s without its character at 1-based position i
RemoveAt(s, i) == SubSeq(s, 1, i - 1) \o SubSeq(s, i + 1, Len(s))

\* 1-based position of the last consonant of s, 0 when there is none
LastConsonantPos(s) ==
    IF \E i \in 1..Len(s) : ~IsVowelChar(s[i])
    THEN CHOOSE i \in 1..Len(s) :
            /\ ~IsVowelChar(s[i])
            /\ \A j \in (i + 1)..Len(s) : IsVowelChar(s[j])
    ELSE 0

\* s with only its first case-insensitive occurrence of key replaced
ReplaceFirst(key, repl, s) ==
    IF \E i \in 1..Len(s) : MatchesAt(key, s, i)
    THEN LET i == CHOOSE k \in 1..Len(s) :
                    /\ MatchesAt(key, s, k)
                    /\ \A j \in 1..(k - 1) : ~MatchesAt(key, s, j)
         IN  SubSeq(s, 1, i - 1) \o repl \o SubSeq(s, i + Len(key), Len(s))
    ELSE s

\* get_transformation returned a (strong, weak, transformed) tuple
Matched == op = "get_transformation" /\ result.exc = "none" /\ Len(result.val) = 3

(* ------------------------------- gradation ----------------------------- *)

\* C1: when the final syllable is computed and its consonants match no key of
\* the table (pair or single, or there is no consonant), get_transformation
\* returns the empty string as a normal value and produce_nom_plural_example
\* returns word + "t".
C1_NoMatchReturnsNoGradation ==
    (/\ FinalSyllableComputed(word)
     /\ ~PairIsKey(ConsonantsOfFinalSyllable(word))
     /\ ~LastIsKey(ConsonantsOfFinalSyllable(word)))
    => /\ op = "get_transformation" => result = Return(<<>>)
       /\ op = "produce_nom_plural_example" => result = Return(word \o <<"t">>)

\* C2: produce_nom_plural_example never fails, and returns exactly word + "t"
\* whenever gradation cannot be resolved (last character not a Wordtype-A
\* vowel, fewer than two vowels, or no rule matching).
C2_PluralExampleNeverFails ==
    op = "produce_nom_plural_example"
    => /\ result.exc = "none"
       /\ (\/ ~FinalSyllableComputed(word)
           \/ /\ ~PairIsKey(ConsonantsOfFinalSyllable(word))
              /\ ~LastIsKey(ConsonantsOfFinalSyllable(word)))
          => result.val = word \o <<"t">>

\* C3: when the last two consonants of the final syllable form a two-character
\* key, get_transformation returns that key with its table value, never the
\* single-character rule; a one-character strong form is returned only when
\* the pair is not a key.
C3_LongestMatchFirst ==
    (op = "get_transformation" /\ FinalSyllableComputed(word))
    => LET cons == ConsonantsOfFinalSyllable(word)
           pair == SubSeq(cons, Len(cons) - 1, Len(cons))
       IN  /\ PairIsKey(cons)
              => /\ result.exc = "none"
                 /\ Len(result.val) = 3
                 /\ result.val[1] = pair
                 /\ result.val[2] = STRONG_TO_WEAK_GRAD[pair]
           /\ (Matched /\ Len(result.val[1]) = 1)
              => /\ ~PairIsKey(cons)
                 /\ result.val[1] = <<cons[Len(cons)]>>
                 /\ result.val[2] = STRONG_TO_WEAK_GRAD[result.val[1]]

\* C3 witness: a final syllable whose consonants end in "nt" resolved to
\* strong "nt", weak "nn"
C3_Witness ==
    /\ Matched
    /\ LET cons == ConsonantsOfFinalSyllable(word)
       IN  Len(cons) >= 2 /\ SubSeq(cons, Len(cons) - 1, Len(cons)) = <<"n", "t">>
    /\ result.val[1] = <<"n", "t">>
    /\ result.val[2] = <<"n", "n">>

\* C4: get_final_syllable fails with InvalidWordType whenever the last
\* character is not a Wordtype-A vowel, however many vowels there are; with
\* InsufficientSyllables when it is but there are fewer than two vowels; and
\* otherwise returns the word from one past the second-to-last vowel on.
C4_FailureOrder ==
    op = "get_final_syllable"
    => IF ~InStr(word[Len(word)], WORDTYPE_A_VOWELS)
       THEN result = Raise("ValueError", "InvalidWordType")
       ELSE IF Len(VowelsOf(word)) < 2
            THEN result = Raise("ValueError", "InsufficientSyllables")
            ELSE result = Return(SubSeq(word, PenultimateVowelPos(word) + 1, Len(word)))

\* C4 witness: a word with a single vowel, a final "e", fails both tests and
\* is reported as InvalidWordType
C4_Witness ==
    /\ op = "get_final_syllable"
    /\ word[Len(word)] = "e"
    /\ Len(VowelsOf(word)) = 1
    /\ result = Raise("ValueError", "InvalidWordType")

\* C8: when the last consonant of the final syllable is a bare "k" (the last
\* two consonants are no key), get_transformation returns strong "k", weak ""
\* and the final syllable with exactly that one consonant removed.
C8_DeletionRule ==
    (/\ op = "get_transformation"
     /\ FinalSyllableComputed(word)
     /\ LET cons == ConsonantsOfFinalSyllable(word)
        IN  Len(cons) >= 1 /\ cons[Len(cons)] = "k" /\ ~PairIsKey(cons))
    => LET fs == SubSeq(word, PenultimateVowelPos(word) + 1, Len(word))
       IN  result = Return(<<(<<"k">>), <<>>, RemoveAt(fs, LastConsonantPos(fs))>>)

\* C9: when get_final_syllable and get_preceding_syllables both succeed, the
\* final syllable is a suffix of the word, the two parts concatenate to the
\* word, and the split is immediately after the second-to-last vowel.
C9_RoundTrip ==
    LET fs  == IF op = "get_final_syllable" THEN result ELSE get_final_syllable(word)
        pre == IF op = "get_preceding_syllables" THEN result ELSE get_preceding_syllables(word)
    IN  (/\ op \in {"get_final_syllable", "get_preceding_syllables"}
         /\ fs.exc = "none"
         /\ pre.exc = "none")
        => /\ Len(fs.val) <= Len(word)
           /\ fs.val = SubSeq(word, Len(word) - Len(fs.val) + 1, Len(word))
           /\ pre.val \o fs.val = word
           /\ Len(pre.val) = PenultimateVowelPos(word)

\* C9 witness: get_preceding_syllables returned a proper prefix of a word
\* whose final syllable has a consonant
C9_Witness ==
    /\ op = "get_preceding_syllables"
    /\ result.exc = "none"
    /\ get_final_syllable(word).exc = "none"
    /\ Len(get_final_syllable(word).val) >= 2
    /\ Len(result.val) >= 2

\* C10: whenever get_transformation matches a key, the transformed syllable is
\* the final syllable with only the first occurrence of the key (matched
\* case-insensitively) replaced by the weak form.
C10_SingleSubstitution ==
    Matched
    => LET fs == SubSeq(word, PenultimateVowelPos(word) + 1, Len(word))
       IN  result.val[3] = ReplaceFirst(result.val[1], result.val[2], fs)

(* -------------------------------- harmony ------------------------------ *)

ReturnVowelGroupOps ==
    {"vokaaliharmonia.return_vowel_group", "vowel_harmony.return_vowel_group"}

GiveExampleEndingsOps ==
    {"vokaaliharmonia.give_example_endings", "vowel_harmony.give_example_endings"}

\* the variant's return_vowel_group
GroupOf(variant, w) ==
    IF variant = "vokaaliharmonia.return_vowel_group"
    THEN vokaaliharmonia_return_vowel_group(w)
    ELSE vowel_harmony_return_vowel_group(w)

DefiniteGroups == {"front", "back", "neutral", "front + neutral", "back + neutral"}

\* C5: return_vowel_group(w) and return_vowel_group(upper(w)) are the same
\* harmony group.
C5_CaseInvariant ==
    op \in ReturnVowelGroupOps
    => result.val.lit = GroupOf(op, Upper(word)).lit

\* C6: in both variants a word with at least one vowel whose vowels are all
\* "i" or "e" is 'neutral', and only such words are.
C6_NeutralRule ==
    op \in ReturnVowelGroupOps
    => (result.val = PyStr("neutral")
        <=> (Len(VowelsOf(word)) >= 1 /\ AllIn(VowelsOf(word), <<"i", "e">>)))

\* C7: a word with a vowel of {a, o, u} and a vowel of {ä, ö, y} gets none of
\* the five definite groups and the endings 'unknown'; a word without vowels
\* is 'inconclusive' and also maps to 'unknown'.
C7_ContradictorySurfaced ==
    LET vs == VowelsOf(word)
        mixed == /\ \E i \in DOMAIN vs : InStr(vs[i], <<"a", "o", "u">>)
                 /\ \E i \in DOMAIN vs : InStr(vs[i], <<"ä", "ö", "y">>)
    IN  /\ (op \in ReturnVowelGroupOps /\ mixed) => result.val.lit \notin DefiniteGroups
        /\ (op \in GiveExampleEndingsOps /\ mixed) => result.val = PyStr("unknown")
        /\ (op \in ReturnVowelGroupOps /\ Len(vs) = 0) => result.val.lit = "inconclusive"
        /\ (op \in GiveExampleEndingsOps /\ Len(vs) = 0) => result.val = PyStr("unknown")

====
